---- MODULE Spec2Model ----
(***************************************************************************)
(* Model of the image compressor.                                          *)
(*                                                                         *)
(*   - POST, the compression request handler of                            *)
(*     src/app/api/compress/route.ts.  It is an async function: between    *)
(*     two awaits it runs to completion, so there is one action per        *)
(*     continuation (the code between two awaits).  Up to MaxRequests      *)
(*     invocations are in flight; they share no state.                     *)
(*   - Home, the page component of src/app/page.tsx: its state (images,    *)
(*     isProcessing, compressionLevel) and its handlers onDrop,            *)
(*     togglePreview, deleteImage and setCompressionLevel.  onDrop is      *)
(*     async too and is split at its await of axios.post.  The toasts and  *)
(*     the console output of the page are not state of the program and are *)
(*     left out.                                                           *)
(*                                                                         *)
(* Spec is the handler, SpecUI is the page.                                *)
(***************************************************************************)
EXTENDS Integers, Sequences, FiniteSets, TLC

\* ------------------------------------------------------------------ bounds
MaxRequests == 1      \* handler invocations in flight
MaxDrops == 2         \* onDrop invocations
MaxFiles == 3         \* files dropped, over all batches
MaxEdits == 1         \* togglePreview / deleteImage / setCompressionLevel clicks

Requests == 1..MaxRequests

\* A form field that is not there (FormData.get gives null), an undefined
\* metadata.format, a local not yet assigned.
NoValue == "<none>"

\* ---------------------------------------------------------------- inputs
\* What sharp's metadata() can report for a decodable buffer (libvips loader
\* names; JPEG input is reported as "jpeg").
DecodableFormats == {"jpeg", "png", "webp", "gif", "tiff"}

\* Byte lengths of an encoded output (never empty).
EncodedLengths == {1, 2}

\* An uploaded byte stream: what it decodes as (NoValue for bytes that are no
\* image at all) and how many bytes the codec makes of its pixels; the codec
\* is a function of its input.
NoBytes == [decodesAs |-> NoValue, encodesTo |-> 0]

ByteStreams == {NoBytes} \cup [decodesAs : DecodableFormats, encodesTo : EncodedLengths]

\* FormData.get("image") is a File, a string (a text field) or null; the cast
\* `as File` checks nothing at run time.
ImageEntries ==
    {[kind |-> "null", value |-> NoValue, bytes |-> NoBytes]}
    \cup {[kind |-> "string", value |-> v, bytes |-> NoBytes] : v \in {"", "hello"}}
    \cup {[kind |-> "File", value |-> NoValue, bytes |-> b] : b \in ByteStreams}

NullEntry == [kind |-> "null", value |-> NoValue, bytes |-> NoBytes]

\* FormData.get("compressionLevel"): a string or null.
LevelValues == {"low", "medium", "high", "ultra", NoValue}

\* A request body: multipart form data, or something request.formData()
\* rejects.
Bodies ==
    {[parses |-> FALSE, image |-> NullEntry, compressionLevel |-> NoValue]}
    \cup {[parses |-> TRUE, image |-> e, compressionLevel |-> l] :
            e \in ImageEntries, l \in LevelValues}

\* The text of a thrown fault (message, stack, paths): chosen by the
\* environment.
FaultDetails == {"ENOMEM", "Error: /srv/app/node_modules/sharp/lib: bad header"}

VARIABLES
    pc,             \* handler: where each invocation is
    request,        \* handler: the body of each request
    locals,         \* handler: image, compressionLevel, quality, format
    metadataCalls,  \* handler: calls of imageProcessor.metadata(), per request
    encoderCalls,   \* handler: encoder calls (.jpeg/.png/.webp + toBuffer), per request
    responses,      \* handler: responses returned, per request
    log,            \* handler: console.error lines, per request
    uncaught,       \* handler: faults that left POST, per request
    images,         \* page: useState images
    isProcessing,   \* page: useState isProcessing
    compressionLevel, \* page: useState compressionLevel
    drops,          \* page: the onDrop invocations
    edits           \* page: clicks made so far

servervars == <<pc, request, locals, metadataCalls, encoderCalls, responses, log, uncaught>>
uivars == <<images, isProcessing, compressionLevel, drops, edits>>
vars == <<pc, request, locals, metadataCalls, encoderCalls, responses, log, uncaught,
          images, isProcessing, compressionLevel, drops, edits>>


\* ================================================================ handler
\* route.ts:10  `!image`: null and the empty string are falsy, a File and a
\* non-empty string are not.
Falsy(image) ==
    \/ image.kind = "null"
    \/ image.kind = "string" /\ image.value = ""

\* resolveQuality without its "high" case.
resolveQuality_HighIsDefault(level) ==
    CASE level = "low" -> 80
      [] OTHER -> 60

\* route.ts:18-29  the switch over compressionLevel.
resolveQuality(level) ==
    CASE level = "low" -> 80
      [] level = "high" -> 40
      [] OTHER -> 60

\* route.ts:45-63  the switch over format: which encoder is set up on the
\* image processor, with which options.
Encoder(format, quality) ==
    CASE format \in {"jpeg", "jpg"} ->
            [encoder |-> "jpeg", quality |-> quality, option |-> "mozjpeg"]
      [] format = "png" ->
            [encoder |-> "png", quality |-> quality, option |-> "compressionLevel9"]
      [] format = "webp" ->
            [encoder |-> "webp", quality |-> quality, option |-> NoValue]
      [] OTHER ->
            [encoder |-> "webp", quality |-> quality, option |-> NoValue]

\* What toBuffer() resolves to for an encoder call on `bytes`: the pixels in
\* the encoding of the encoder that ran.
EncodedBuffer(call, bytes) ==
    [encoding |-> call.encoder, pixels |-> bytes, length |-> bytes.encodesTo]

\* route.ts:66-68  processedBuffer.toString("base64"): the same bytes, as text.
Base64(processedBuffer) == <<"base64", processedBuffer>>

\* route.ts:66-68  the template string `data:image/${format};base64,${...}`,
\* kept as its two parts.
DataUrl(format, processedBuffer) ==
    [mime |-> "image/" \o format, payload |-> Base64(processedBuffer)]

\* route.ts:70-74
SuccessResponse(format, processedBuffer) ==
    [status |-> 200,
     body |-> [compressedDataUrl |-> DataUrl(format, processedBuffer),
               size |-> processedBuffer.length,
               format |-> format]]

ErrorResponse(message, status) == [status |-> status, body |-> [error |-> message]]

\* route.ts:11-14
NoImageResponse == ErrorResponse("No image file provided", 400)

\* route.ts:35-38
InvalidFormatResponse == ErrorResponse("Invalid image format", 400)

\* A catch block that answers 400.
CatchResponse_ClientError(error) == ErrorResponse("Failed to process image", 400)

\* A catch block that puts the fault into the response.
CatchResponse_Leak(error) == ErrorResponse(error, 500)

\* route.ts:75-80  the catch block's response.
CatchResponse(error) == ErrorResponse("Failed to process image", 500)

\* A try block that ends before the encoder runs.
TryCovers_NotToBuffer(step) == step \in {"formData", "arrayBuffer", "metadata"}

\* route.ts:5-75  the try block spans every await of the handler.
TryCovers(step) == step \in {"formData", "arrayBuffer", "metadata", "toBuffer"}

NoLocals ==
    [image |-> NullEntry, compressionLevel |-> NoValue, quality |-> 0,
     format |-> NoValue, exit |-> NoValue]

InitServer ==
    /\ pc = [r \in Requests |-> "idle"]
    /\ request = [r \in Requests |-> [parses |-> FALSE, image |-> NullEntry,
                                      compressionLevel |-> NoValue]]
    /\ locals = [r \in Requests |-> NoLocals]
    /\ metadataCalls = [r \in Requests |-> <<>>]
    /\ encoderCalls = [r \in Requests |-> <<>>]
    /\ responses = [r \in Requests |-> <<>>]
    /\ log = [r \in Requests |-> <<>>]
    /\ uncaught = [r \in Requests |-> <<>>]

\* `return NextResponse.json(...)`: the invocation ends with this response.
Return(r, response, exit, newLocals) ==
    /\ responses' = [responses EXCEPT ![r] = Append(@, response)]
    /\ locals' = [locals EXCEPT ![r] = [newLocals EXCEPT !.exit = exit]]
    /\ pc' = [pc EXCEPT ![r] = "done"]

\* A fault thrown at `step`: inside the try block it reaches the catch block
\* (route.ts:75-81: console.error, then the response); outside it would leave
\* POST.
Throw(r, step, error, newLocals) ==
    IF TryCovers(step)
    THEN /\ log' = [log EXCEPT ![r] = Append(@, [at |-> step, error |-> error])]
         /\ Return(r, CatchResponse(error), "catch", newLocals)
         /\ UNCHANGED uncaught
    ELSE /\ uncaught' = [uncaught EXCEPT ![r] = Append(@, [at |-> step, error |-> error])]
         /\ locals' = [locals EXCEPT ![r] = [newLocals EXCEPT !.exit = "uncaught"]]
         /\ pc' = [pc EXCEPT ![r] = "done"]
         /\ UNCHANGED <<log, responses>>

\* route.ts:4-6  POST is called with a request and awaits request.formData().
POST(r, body) ==
    /\ pc[r] = "idle"
    /\ UNCHANGED uivars
    /\ request' = [request EXCEPT ![r] = body]
    /\ pc' = [pc EXCEPT ![r] = "formData"]
    /\ UNCHANGED <<locals, metadataCalls, encoderCalls, responses, log, uncaught>>

\* route.ts:6-17  formData() settles: the two fields are read, a missing image
\* is answered with 400, otherwise image.arrayBuffer() is called (a TypeError
\* when image is a string, which has no such method) and awaited.
AfterFormData(r, error) ==
    /\ pc[r] = "formData"
    /\ UNCHANGED uivars
    /\ UNCHANGED <<request, metadataCalls, encoderCalls>>
    /\ IF ~request[r].parses
       THEN Throw(r, "formData", error, locals[r])
       ELSE LET l == [locals[r] EXCEPT !.image = request[r].image,
                                       !.compressionLevel = request[r].compressionLevel]
            IN  IF Falsy(l.image)
                THEN /\ Return(r, NoImageResponse, "noImage", l)
                     /\ UNCHANGED <<log, uncaught>>
                ELSE IF l.image.kind = "string"
                THEN Throw(r, "arrayBuffer", "TypeError: image.arrayBuffer is not a function", l)
                ELSE /\ locals' = [locals EXCEPT ![r] = l]
                     /\ pc' = [pc EXCEPT ![r] = "arrayBuffer"]
                     /\ UNCHANGED <<responses, log, uncaught>>

\* route.ts:17-32  arrayBuffer() settles: the buffer is made, the quality is
\* resolved, sharp(buffer).metadata() is called and awaited.
AfterArrayBuffer(r) ==
    /\ pc[r] = "arrayBuffer"
    /\ UNCHANGED uivars
    /\ locals' = [locals EXCEPT ![r].quality = resolveQuality(locals[r].compressionLevel)]
    /\ metadataCalls' = [metadataCalls EXCEPT ![r] = Append(@, locals[r].image.bytes)]
    /\ pc' = [pc EXCEPT ![r] = "metadata"]
    /\ UNCHANGED <<request, encoderCalls, responses, log, uncaught>>

\* route.ts:32-63  metadata() settles.  For bytes that are no image the codec
\* either rejects (throws) or reports no format; for an image it reports the
\* format.  No format is answered with 400; otherwise the encoder for the
\* format is set up and toBuffer() is called and awaited.
AfterMetadata(r, rejects, error) ==
    /\ pc[r] = "metadata"
    /\ UNCHANGED uivars
    /\ UNCHANGED <<request, metadataCalls>>
    /\ LET bytes == locals[r].image.bytes
       IN  IF bytes.decodesAs = NoValue /\ rejects
           THEN /\ Throw(r, "metadata", error, locals[r])
                /\ UNCHANGED encoderCalls
           ELSE LET l == [locals[r] EXCEPT !.format = bytes.decodesAs]
                IN  IF l.format = NoValue
                    THEN /\ Return(r, InvalidFormatResponse, "noFormat", l)
                         /\ UNCHANGED <<encoderCalls, log, uncaught>>
                    ELSE /\ locals' = [locals EXCEPT ![r] = l]
                         /\ encoderCalls' = [encoderCalls EXCEPT ![r] =
                                                Append(@, Encoder(l.format, l.quality))]
                         /\ pc' = [pc EXCEPT ![r] = "toBuffer"]
                         /\ UNCHANGED <<responses, log, uncaught>>

\* route.ts:48-74  toBuffer() settles: with the encoded bytes, which are
\* wrapped into the success response, or with a fault of the codec.
AfterToBuffer(r, fails, error) ==
    /\ pc[r] = "toBuffer"
    /\ UNCHANGED uivars
    /\ UNCHANGED <<request, metadataCalls, encoderCalls>>
    /\ IF fails
       THEN Throw(r, "toBuffer", error, locals[r])
       ELSE LET processedBuffer ==
                    EncodedBuffer(encoderCalls[r][Len(encoderCalls[r])], locals[r].image.bytes)
            IN  /\ Return(r, SuccessResponse(locals[r].format, processedBuffer),
                          "success", locals[r])
                /\ UNCHANGED <<log, uncaught>>

NextServer ==
    \/ \E r \in Requests, body \in Bodies : POST(r, body)
    \/ \E r \in Requests, error \in FaultDetails : AfterFormData(r, error)
    \/ \E r \in Requests : AfterArrayBuffer(r)
    \/ \E r \in Requests, rejects \in BOOLEAN, error \in FaultDetails :
            AfterMetadata(r, rejects, error)
    \/ \E r \in Requests, fails \in BOOLEAN, error \in FaultDetails :
            AfterToBuffer(r, fails, error)


\* =================================================================== page
Drops == 1..MaxDrops

\* Files the dropzone hands to onDrop.  Its accept map takes a file by MIME
\* type or by extension (page.tsx:87-89), so a file named *.png whose type is
\* empty is accepted too.
UploadFiles ==
    {[name |-> "a.png", type |-> "image/png", size |-> 3,
      bytes |-> [decodesAs |-> "png", encodesTo |-> 1]],
     [name |-> "c.jpg", type |-> "image/jpeg", size |-> 4,
      bytes |-> [decodesAs |-> "jpeg", encodesTo |-> 2]],
     [name |-> "b.png", type |-> "", size |-> 2,
      bytes |-> [decodesAs |-> "png", encodesTo |-> 1]]}

RECURSIVE SeqsUpTo(_, _)
SeqsUpTo(S, n) ==
    IF n = 0 THEN {<<>>}
    ELSE LET shorter == SeqsUpTo(S, n - 1)
         IN  shorter \cup {Append(q, x) : q \in {t \in shorter : Len(t) = n - 1}, x \in S}

Batches == SeqsUpTo(UploadFiles, MaxFiles)

\* page.tsx:34-36
UILevels == {"low", "medium", "high"}

\* page.tsx:48  file.type.startsWith("image/"), on the MIME types of UploadFiles.
IsImageType(file) == file.type \in {"image/png", "image/jpeg", "image/webp"}

\* page.tsx:47-51  the loop skips files that are no images: the index of the
\* first image file at or after `from`, Len + 1 when there is none.
RECURSIVE NextImage(_, _)
NextImage(acceptedFiles, from) ==
    IF from > Len(acceptedFiles) THEN Len(acceptedFiles) + 1
    ELSE IF IsImageType(acceptedFiles[from]) THEN from
    ELSE NextImage(acceptedFiles, from + 1)

\* page.tsx:53-55
FormData(file, level) == [image |-> file, compressionLevel |-> level]

\* The bodies axios.post can resolve with: what the handler answers with status
\* 200 to this form data (route.ts:70-74).
Replies(formData) ==
    LET format == formData.image.bytes.decodesAs
        call == Encoder(format, resolveQuality(formData.compressionLevel))
    IN  {SuccessResponse(format, EncodedBuffer(call, formData.image.bytes)).body}

\* page.tsx:63-70
NewImage(file, data) ==
    [originalSize |-> file.size,
     compressedSize |-> data.size,
     compressedDataUrl |-> data.compressedDataUrl,
     name |-> file.name,
     format |-> data.format,
     previewVisible |-> FALSE]

\* setImages(newImages): the list as it was is lost.
AppendImages_Replace(prev, newImages) == newImages

\* page.tsx:73  setImages((prev) => [...prev, ...newImages])
AppendImages(prev, newImages) == prev \o newImages

\* No request in flight.
NoRequest == [image |-> [name |-> NoValue, type |-> NoValue, size |-> 0, bytes |-> NoBytes],
              compressionLevel |-> NoValue]

\* An onDrop invocation: its locals (acceptedFiles, the captured level, the
\* loop position, newImages), the request it awaits, how many requests it has
\* sent, and how it ended.  The locals are gone once it has returned.
IdleDrop ==
    [pc |-> "idle", acceptedFiles |-> <<>>, level |-> NoValue, index |-> 0,
     newImages |-> <<>>, request |-> NoRequest, sent |-> 0, outcome |-> NoValue,
     files |-> 0]

Returned(rec, outcome) ==
    [IdleDrop EXCEPT !.pc = "done", !.sent = rec.sent, !.outcome = outcome,
                     !.files = rec.files]

\* Files dropped so far, by the first n invocations.
RECURSIVE FilesDropped(_)
FilesDropped(n) == IF n = 0 THEN 0 ELSE drops[n].files + FilesDropped(n - 1)

InitUI ==
    /\ images = <<>>
    /\ isProcessing = FALSE
    /\ compressionLevel = "medium"
    /\ drops = [d \in Drops |-> IdleDrop]
    /\ edits = 0

\* page.tsx:47-80  the for loop from position `from` on, up to the next await
\* or to the end of onDrop.  `rec` is the invocation with what the caller has
\* already changed, `processing` the value of isProcessing the caller leaves.
RunLoop(d, rec, from, processing) ==
    LET j == NextImage(rec.acceptedFiles, from)
    IN  IF j <= Len(rec.acceptedFiles)
        THEN /\ drops' = [drops EXCEPT ![d] =
                    [rec EXCEPT !.pc = "awaiting", !.index = j,
                                !.request = FormData(rec.acceptedFiles[j], rec.level),
                                !.sent = @ + 1]]
             /\ isProcessing' = processing
             /\ UNCHANGED images
        ELSE /\ images' = AppendImages(images, rec.newImages)
             /\ isProcessing' = FALSE
             /\ drops' = [drops EXCEPT ![d] = Returned(rec, "ok")]

\* page.tsx:39-57  onDrop is called with the accepted files: nothing happens
\* for an empty list; otherwise isProcessing is set and the loop runs to its
\* first axios.post.  The level is the one of the render that made the callback.
onDrop(d, acceptedFiles) ==
    /\ drops[d].pc = "idle"
    /\ UNCHANGED servervars
    /\ \A e \in Drops : e < d => drops[e].pc # "idle"
    /\ Len(acceptedFiles) <= MaxFiles - FilesDropped(d - 1)
    /\ UNCHANGED <<compressionLevel, edits>>
    /\ IF Len(acceptedFiles) = 0
       THEN /\ drops' = [drops EXCEPT ![d] = Returned(IdleDrop, "empty")]
            /\ UNCHANGED <<images, isProcessing>>
       ELSE RunLoop(d, [IdleDrop EXCEPT !.acceptedFiles = acceptedFiles,
                                        !.files = Len(acceptedFiles),
                                        !.level = compressionLevel], 1, TRUE)

\* page.tsx:57-74  axios.post resolves: the entry is pushed and the loop goes on.
axiosResolve(d) ==
    /\ drops[d].pc = "awaiting"
    /\ UNCHANGED servervars
    /\ UNCHANGED <<compressionLevel, edits>>
    /\ LET rec == drops[d]
           file == rec.acceptedFiles[rec.index]
       IN  \E data \in Replies(rec.request) :
              RunLoop(d, [rec EXCEPT !.newImages = Append(@, NewImage(file, data)),
                                     !.request = NoRequest],
                      rec.index + 1, isProcessing)

\* page.tsx:75-80  axios.post rejects (a 400 or 500 of the handler, a network
\* error): catch, then finally.  newImages is dropped with the invocation.
axiosReject(d) ==
    /\ drops[d].pc = "awaiting"
    /\ UNCHANGED servervars
    /\ UNCHANGED images
    /\ isProcessing' = FALSE
    /\ drops' = [drops EXCEPT ![d] = Returned(drops[d], "failed")]
    /\ UNCHANGED <<compressionLevel, edits>>

\* page.tsx:101-107
togglePreview(index) ==
    /\ edits < MaxEdits
    /\ UNCHANGED servervars
    /\ index \in 1..Len(images)
    /\ images' = [i \in 1..Len(images) |->
                    IF i = index
                    THEN [images[i] EXCEPT !.previewVisible = ~images[i].previewVisible]
                    ELSE images[i]]
    /\ edits' = edits + 1
    /\ UNCHANGED <<isProcessing, compressionLevel, drops>>

\* page.tsx:109-112
deleteImage(index) ==
    /\ edits < MaxEdits
    /\ UNCHANGED servervars
    /\ index \in 1..Len(images)
    /\ images' = SubSeq(images, 1, index - 1) \o SubSeq(images, index + 1, Len(images))
    /\ edits' = edits + 1
    /\ UNCHANGED <<isProcessing, compressionLevel, drops>>

\* page.tsx:34-36, 147-150  a level button is clicked; setting the level the
\* state already has changes nothing.
setCompressionLevel(level) ==
    /\ edits < MaxEdits
    /\ UNCHANGED servervars
    /\ level # compressionLevel
    /\ compressionLevel' = level
    /\ edits' = edits + 1
    /\ UNCHANGED <<images, isProcessing, drops>>

NextUI ==
    \/ \E d \in Drops, acceptedFiles \in Batches : onDrop(d, acceptedFiles)
    \/ \E d \in Drops : axiosResolve(d)
    \/ \E d \in Drops : axiosReject(d)
    \/ \E index \in 1..MaxFiles : togglePreview(index)
    \/ \E index \in 1..MaxFiles : deleteImage(index)
    \/ \E level \in UILevels : setCompressionLevel(level)

\* ========================================================= specifications
Init == InitServer /\ InitUI

\* The handler: requests arrive and are answered.
Spec == Init /\ [][NextServer]_vars

\* The page: files are dropped, compressed by the handler and listed.
SpecUI == Init /\ [][NextUI]_vars


\* ============================================================ the handler's claims
Done(r) == pc[r] = "done"

Succeeded(r) == Done(r) /\ Len(responses[r]) = 1 /\ responses[r][1].status = 200

\* The fault the catch block caught was thrown at `step`.
FailedAt(r, step) == Done(r) /\ Len(log[r]) = 1 /\ log[r][1].at = step

SourceFormat(r) == request[r].image.bytes.decodesAs

\* C1: in every success response the format name is the source format for a
\* jpeg, png or webp source and "webp" for any other decodable source.
C1_FormatFidelity ==
    \A r \in Requests :
        Succeeded(r) =>
            responses[r][1].body.format =
                IF SourceFormat(r) \in {"jpeg", "png", "webp"} THEN SourceFormat(r) ELSE "webp"

\* C2: a request whose image bytes decode as no image format is answered with
\* status 400 "Invalid image format" and nothing else, whether the metadata
\* inspection reports no format or throws.
C2_UndecodableIsClientError ==
    \A r \in Requests :
        (/\ Done(r)
         /\ request[r].parses
         /\ request[r].image.kind = "File"
         /\ SourceFormat(r) = NoValue)
        => responses[r] = <<ErrorResponse("Invalid image format", 400)>>

QualityTable(level) ==
    IF level = "low" THEN 80
    ELSE IF level = "medium" THEN 60
    ELSE IF level = "high" THEN 40
    ELSE 60

\* C3: the quality handed to the encoder is 80 for "low", 60 for "medium", 40
\* for "high" and 60 for an absent or unrecognized level, and resolving it
\* raises no fault: once the file is buffered the handler goes on to detection
\* with the quality set.
C3_QualityMapping ==
    \A r \in Requests :
        /\ pc[r] \in {"metadata", "toBuffer"} =>
              /\ locals[r].quality = QualityTable(request[r].compressionLevel)
              /\ log[r] = <<>> /\ responses[r] = <<>>
        /\ \A k \in 1..Len(encoderCalls[r]) :
              encoderCalls[r][k].quality = QualityTable(request[r].compressionLevel)

C3_Witness ==
    \E r \in Requests :
        /\ request[r].compressionLevel = "high"
        /\ Len(encoderCalls[r]) = 1
        /\ encoderCalls[r][1].quality = 40

\* C4: in every success response the MIME type of the data reference names
\* the encoding of the bytes in its base64 payload.
C4_MimeNamesEncoding ==
    \A r \in Requests :
        Succeeded(r) =>
            LET url == responses[r][1].body.compressedDataUrl
            IN  url.mime = "image/" \o url.payload[2].encoding

\* C5: a request whose image field carries no file is answered with status 400
\* "No image file provided", and neither the detector nor an encoder is called
\* for it.
C5_MissingInputIsClientError ==
    \A r \in Requests :
        (Done(r) /\ request[r].parses /\ request[r].image.kind # "File")
        => /\ responses[r] = <<ErrorResponse("No image file provided", 400)>>
           /\ metadataCalls[r] = <<>>
           /\ encoderCalls[r] = <<>>

\* C6: when a format was determined and the encoder then fails, the request is
\* answered with status 500: no client error, no success.
C6_EncoderFailureIsServerError ==
    \A r \in Requests :
        (FailedAt(r, "toBuffer") /\ locals[r].format # NoValue)
        => /\ Len(responses[r]) = 1
           /\ responses[r][1].status = 500

C6_Witness ==
    \E r \in Requests :
        /\ FailedAt(r, "toBuffer")
        /\ locals[r].format = "png"
        /\ Len(encoderCalls[r]) = 1
        /\ responses[r][1].status = 500

CompleteSuccess(response) ==
    /\ response.status = 200
    /\ DOMAIN response.body = {"compressedDataUrl", "size", "format"}
    /\ response.body.size >= 1
    /\ response.body.format # NoValue

StructuredError(response) ==
    /\ response.status \in {400, 500}
    /\ DOMAIN response.body = {"error"}

\* C7: every invocation ends with exactly one response, a complete success or
\* a structured error with status 400 or 500, whatever step fails; no fault
\* leaves the handler; the detector and the encoder are each called at most
\* once per request.
C7_OneResponseNoEscape ==
    \A r \in Requests :
        /\ uncaught[r] = <<>>
        /\ Len(metadataCalls[r]) <= 1
        /\ Len(encoderCalls[r]) <= 1
        /\ Len(responses[r]) <= 1
        /\ ~Done(r) => responses[r] = <<>>
        /\ Done(r) =>
              /\ Len(responses[r]) = 1
              /\ CompleteSuccess(responses[r][1]) \/ StructuredError(responses[r][1])

C7_Witness ==
    \E r \in Requests :
        /\ FailedAt(r, "toBuffer")
        /\ Len(metadataCalls[r]) = 1
        /\ Len(encoderCalls[r]) = 1
        /\ Len(responses[r]) = 1
        /\ StructuredError(responses[r][1])

FixedMessages == {"No image file provided", "Invalid image format", "Failed to process image"}

\* Where an invocation that ended in an error left the handler: the return it
\* took, and the step whose fault the catch block caught.
FailurePoint(r) == <<locals[r].exit, IF log[r] = <<>> THEN NoValue ELSE log[r][1].at>>

\* C8: the message of an error response is one of three constant strings,
\* fixed by the place where the handler gave up and not by the fault: any two
\* invocations that fail at the same place get the same response, whatever the
\* faults say.
C8_ErrorsCarryNoDetail ==
    \A r \in Requests :
        (Done(r) /\ Len(responses[r]) = 1 /\ responses[r][1].status # 200) =>
            /\ responses[r][1].body.error \in FixedMessages
            /\ responses[r][1].body.error \notin FaultDetails
            /\ locals[r].exit = "catch" =>
                  responses[r][1] = ErrorResponse("Failed to process image", 500)
            /\ \A q \in Requests :
                  (/\ Done(q) /\ Len(responses[q]) = 1 /\ responses[q][1].status # 200
                   /\ FailurePoint(q) = FailurePoint(r))
                  => responses[q][1] = responses[r][1]

C8_Witness ==
    \E r \in Requests, e \in FaultDetails :
        /\ FailedAt(r, "metadata")
        /\ log[r][1].error = e
        /\ e # "ENOMEM"
        /\ responses[r] = <<ErrorResponse("Failed to process image", 500)>>

\* ============================================================== the page's claims
ImageFiles(acceptedFiles) == SelectSeq(acceptedFiles, IsImageType)

\* `entries` is one entry per image file of the batch, in the order of the drop.
OneEntryPerImageFile(entries, acceptedFiles, level) ==
    LET fs == ImageFiles(acceptedFiles)
    IN  /\ Len(entries) = Len(fs)
        /\ \A k \in 1..Len(fs) :
              \E data \in Replies(FormData(fs[k], level)) : entries[k] = NewImage(fs[k], data)

C9_Step(d) ==
    LET before == drops[d]
        after == drops'[d]
    IN  \* a returned invocation sends nothing more
        /\ before.pc = "done" => after = before
        \* only the end of a batch touches the list
        /\ (after # before /\ after.pc # "done") => images' = images
        \* a batch that ends without having awaited a request lists nothing
        /\ (before.pc = "idle" /\ after.pc = "done") => (images' = images /\ after.sent = 0)
        \* every request succeeded: the list is the old one plus the batch's entries
        /\ (before.pc = "awaiting" /\ after.pc = "done" /\ after.outcome = "ok") =>
              /\ Len(images') >= Len(images)
              /\ SubSeq(images', 1, Len(images)) = images
              /\ OneEntryPerImageFile(SubSeq(images', Len(images) + 1, Len(images')),
                                      before.acceptedFiles, before.level)
              /\ after.sent = Len(ImageFiles(before.acceptedFiles))
        \* a request failed: the list is untouched, the entries already made are
        \* dropped, and the failed request is the last one sent
        /\ (before.pc = "awaiting" /\ after.pc = "done" /\ after.outcome # "ok") =>
              /\ images' = images
              /\ after.outcome = "failed"
              /\ after.sent = before.sent
              /\ before.sent = Len(before.newImages) + 1

\* C9: a dropped batch is applied to the list all-or-nothing.  When all its
\* requests succeed the list becomes the list as it was followed by one entry
\* per image file of the batch, in drop order; when one fails the list is left
\* as it was, entries of files already compressed included, and no further
\* file of the batch is sent.
C9_BatchAllOrNothing == [][\A d \in Drops : C9_Step(d)]_vars

C9_Witness ==
    \E d, e \in Drops :
        /\ drops[d].outcome = "failed"
        /\ drops[d].sent = 2
        /\ drops[d].files = 2
        /\ drops[e].outcome = "ok"
        /\ Len(images) = 1

\* C10: isProcessing is true whenever some onDrop invocation has started a
\* non-empty batch and has not finished it.
C10_ProcessingWhileAwaiting ==
    (\E d \in Drops : drops[d].pc = "awaiting") => isProcessing

====
